---- MODULE Spec2Model ----
(***************************************************************************)
(* Model of the mi300-influx collector: src/run.py (main loop),            *)
(* src/mi300.py (MI300: is_reachable, query, read_data, get_html,          *)
(* _value_or_none, parse_html) and src/influx.py (Influx.write).           *)
(*                                                                         *)
(* Python values are tagged tuples, so that values of different Python     *)
(* types can be compared: None is <<"None">>, an int is <<"int", n>>, a    *)
(* str is <<"str", s>> with s a sequence of one-character strings, a float *)
(* is <<"float", m, e>> (the number m / 10^e, m carrying no trailing zero  *)
(* while e > 0), a bool is <<"bool", b>>, a datetime.timedelta is          *)
(* <<"timedelta", seconds, microseconds>>.                                 *)
(***************************************************************************)
EXTENDS Integers, Sequences, FiniteSets, TLC

VARIABLES
    pc,                   \* position of main / read_data / query
    pending,              \* exception propagating out of main's inner try (None: none)
    exc,                  \* exception raised by the step just taken (None: none)
    logged,               \* argument of logger.error(e) of main in this cycle
    is_reachable,         \* attribute mi300.is_reachable (the bound method until called)
    online,               \* environment: does the inverter answer the echo this cycle
    tries,                \* local variable tries of read_data
    request_status_code,  \* MI300 attributes set by get_html
    request_reason,
    request_elapsed,
    request_html,
    time,
    influx_data,          \* MI300.influx_data
    clock,                \* environment: datetime.utcnow()
    outcome,              \* environment: what the last requests.get of this cycle did
    attempts,             \* history: query() calls of this cycle, counted up to MaxCount
    fetches,              \* history: get_html calls of this cycle, counted up to MaxCount
    goodAt,               \* history: first attempt of this cycle with non-null yield_total
    goodRec,              \* history: the record of that attempt
    writes,               \* history: Influx.write calls of this cycle, counted up to MaxCount
    written,              \* history: argument of the last Influx.write
    sink_log,             \* which branch of Influx.write logged in this cycle
    sink,                 \* environment: what client.write_points did in this cycle
    producedAt,           \* history: the attempt of this cycle that assigned influx_data (0: none)
    pings,                \* history: pings run by is_reachable in this cycle, up to MaxCount
    parse_in              \* ParseSpec: the raw response parse_html is applied to

vars == <<pc, pending, exc, logged, is_reachable, online, tries, request_status_code,
          request_reason, request_elapsed, request_html, time, influx_data, clock,
          outcome, attempts, fetches, goodAt, goodRec, writes, written, sink_log,
          sink, producedAt, pings, parse_in>>

-----------------------------------------------------------------------------
\* Bounds of the model.

\* History counters count up to MaxCount and stay there.
MaxCount == 7
\* datetime.utcnow() takes the values 0..MaxClock and stays at MaxClock.
MaxClock == 2

\* while tries < 5 (mi300.py:54)
MaxTries == 5
\* the status code of a successful response (mi300.py:82, mi300.py:117)
HTTP_OK == 200

-----------------------------------------------------------------------------
\* Python values.

None == <<"None">>
Unset == <<"unset">>
BoundMethod == <<"method">>
PInt(n) == <<"int", n>>
PStr(s) == <<"str", s>>
PBool(b) == <<"bool", b>>
Timedelta(s, us) == <<"timedelta", s, us>>

RECURSIVE NormFloat(_, _)
NormFloat(m, e) ==
    IF e > 0 /\ m % 10 = 0 THEN NormFloat(m \div 10, e - 1) ELSE <<"float", m, e>>

Inc(n) == IF n < MaxCount THEN n + 1 ELSE n
Tick(t) == IF t < MaxClock THEN t + 1 ELSE t

\* bool(x) as the if statement of main applies it to the attribute is_reachable
Truthy(v) ==
    CASE v = BoundMethod -> TRUE
      [] v = None -> FALSE
      [] v[1] = "bool" -> v[2]
      [] OTHER -> TRUE

-----------------------------------------------------------------------------
\* Strings: sequences of one-character strings.

Digits == <<"0", "1", "2", "3", "4", "5", "6", "7", "8", "9">>
DigitSet == {Digits[i] : i \in 1..10}
DigitVal(c) == (CHOOSE i \in 1..10 : Digits[i] = c) - 1
Whitespace == {" "}

\* str.isdigit(): non-empty and every character a digit
IsDigit(s) == Len(s) > 0 /\ \A i \in 1..Len(s) : s[i] \in DigitSet

RECURSIVE DecimalValue(_)
DecimalValue(s) ==
    IF s = <<>> THEN 0
    ELSE 10 * DecimalValue(SubSeq(s, 1, Len(s) - 1)) + DigitVal(s[Len(s)])

RECURSIVE LStrip(_, _)
LStrip(s, chars) ==
    IF s # <<>> /\ s[1] \in chars THEN LStrip(Tail(s), chars) ELSE s

RECURSIVE RStrip(_, _)
RStrip(s, chars) ==
    IF s # <<>> /\ s[Len(s)] \in chars THEN RStrip(SubSeq(s, 1, Len(s) - 1), chars) ELSE s

\* str.strip(chars): every leading and every trailing character of chars is removed
Strip(s, chars) == RStrip(LStrip(s, chars), chars)

\* int(s) of Python for a string of the model's alphabet: surrounding whitespace
\* is ignored; anything but decimal digits is a ValueError.
IntParses(s) == IsDigit(Strip(s, Whitespace))
IntParse(s) == DecimalValue(Strip(s, Whitespace))

\* float(s) of Python for a string of the model's alphabet (digits, ".",
\* whitespace and characters float never accepts): surrounding whitespace is
\* ignored; digits with at most one "." and at least one digit.
PointAt(s) == IF \E i \in 1..Len(s) : s[i] = "." THEN CHOOSE i \in 1..Len(s) : s[i] = "." ELSE 0
FloatParses(s) ==
    LET t == Strip(s, Whitespace)
        p == PointAt(t)
        ip == IF p = 0 THEN t ELSE SubSeq(t, 1, p - 1)
        fp == IF p = 0 THEN <<>> ELSE SubSeq(t, p + 1, Len(t))
    IN  /\ Len(ip) + Len(fp) > 0
        /\ \A i \in 1..Len(ip) : ip[i] \in DigitSet
        /\ \A i \in 1..Len(fp) : fp[i] \in DigitSet
FloatParse(s) ==
    LET t == Strip(s, Whitespace)
        p == PointAt(t)
        ip == IF p = 0 THEN t ELSE SubSeq(t, 1, p - 1)
        fp == IF p = 0 THEN <<>> ELSE SubSeq(t, p + 1, Len(t))
    IN  NormFloat(DecimalValue(ip \o fp), Len(fp))

\* timedelta.total_seconds(): seconds as a float
total_seconds(td) == NormFloat(td[2] * 1000000 + td[3], 6)

-----------------------------------------------------------------------------
\* MI300._value_or_none(value, dtype): raises is the exception it raises
\* (None: it returns), value is what it returns.

\* Op applied to the value of x, x evaluated once: a local variable of the code.
Bind(x, Op(_)) == CHOOSE r \in {Op(v) : v \in {x}} : TRUE

Returns(v) == [raises |-> None, value |-> v]
Raises(e) == [raises |-> <<"exc", e>>, value |-> None]

value_or_none(value, dtype) ==
    CASE dtype = "str" ->
            Returns(IF value # <<>> THEN PStr(Strip(value, Whitespace)) ELSE None)
      [] dtype = "int" ->
            Returns(IF IsDigit(value) THEN PInt(DecimalValue(value)) ELSE None)
      [] dtype = "float" ->
            Returns(IF FloatParses(value) THEN FloatParse(value) ELSE None)
      [] dtype = "bool" ->
            IF value # <<>>
            THEN IF IntParses(value) THEN Returns(PBool(IntParse(value) # 0))
                 ELSE Raises("ValueError")
            ELSE Returns(None)
      [] OTHER -> Raises("TypeError")

-----------------------------------------------------------------------------
\* MI300.parse_html.

\* measure_names with "last_updated" forgotten
measure_names_short ==
    <<"inverter_serial_number", "firmware_main", "firmware_slave", "inverter_model",
      "power_rated", "power_current", "yield_today", "yield_total", "alerts",
      "device_serial_number", "firmware_version", "WiFi_mode",
      "AP_SSID", "AP_IP", "AP_mac", "STA_SSID", "STA_signal_quality", "STA_IP",
      "STA_mac", "remote_server_A_connected", "remote_server_B_connected",
      "remote_server_C_connected">>

\* measure_names of the non-200 branch (mi300.py:118-142)
measure_names ==
    <<"inverter_serial_number", "firmware_main", "firmware_slave", "inverter_model",
      "power_rated", "power_current", "yield_today", "yield_total", "alerts",
      "last_updated", "device_serial_number", "firmware_version", "WiFi_mode",
      "AP_SSID", "AP_IP", "AP_mac", "STA_SSID", "STA_signal_quality", "STA_IP",
      "STA_mac", "remote_server_A_connected", "remote_server_B_connected",
      "remote_server_C_connected">>

\* The dict literal of the 200 branch after its three request_ entries
\* (mi300.py:161-183), in evaluation order: output field, js_vars key, dtype,
\* and whether .strip("%") is applied to the value first.
F(field, src, dtype) == [field |-> field, src |-> src, dtype |-> dtype, pct |-> FALSE]
SourceFields ==
    << F("inverter_serial_number", "webdata_sn", "str"),
       F("firmware_main", "webdata_msvn", "str"),
       F("firmware_slave", "webdata_ssvn", "str"),
       F("inverter_model", "webdata_pv_type", "str"),
       F("power_rated", "webdata_rate_p", "int"),
       F("power_current", "webdata_now_p", "int"),
       F("yield_today", "webdata_today_e", "float"),
       F("yield_total", "webdata_total_e", "float"),
       F("alerts", "webdata_alarm", "str"),
       F("last_updated", "webdata_utime", "int"),
       F("device_serial_number", "cover_mid", "str"),
       F("firmware_version", "cover_ver", "str"),
       F("WiFi_mode", "cover_wmode", "str"),
       F("AP_SSID", "cover_ap_ssid", "str"),
       F("AP_IP", "cover_ap_ip", "str"),
       F("AP_mac", "cover_ap_mac", "str"),
       F("STA_SSID", "cover_sta_ssid", "str"),
       [field |-> "STA_signal_quality", src |-> "cover_sta_rssi", dtype |-> "int", pct |-> TRUE],
       F("STA_IP", "cover_sta_ip", "str"),
       F("STA_mac", "cover_sta_mac", "str"),
       F("remote_server_A_connected", "status_a", "bool"),
       F("remote_server_B_connected", "status_b", "bool"),
       F("remote_server_C_connected", "status_c", "bool") >>

RequestKeys == {"request_status_code", "request_reason", "request_elapsed"}

\* A line of the page, after line.strip("var ").strip(";") and split(" = "):
\* kw is how the line starts ("var" or anything else), key is the first piece
\* of the split, rest the pieces after it (none when the line holds no " = ").
\* A line is selected when it starts with "var web", "var cover" or "var status".
WebKeys == {"webdata_sn", "webdata_msvn", "webdata_ssvn", "webdata_pv_type",
            "webdata_rate_p", "webdata_now_p", "webdata_today_e", "webdata_total_e",
            "webdata_alarm", "webdata_utime"}
CoverKeys == {"cover_mid", "cover_ver", "cover_wmode", "cover_ap_ssid", "cover_ap_ip",
              "cover_ap_mac", "cover_sta_ssid", "cover_sta_rssi", "cover_sta_ip",
              "cover_sta_mac"}
StatusKeys == {"status_a", "status_b", "status_c"}
Selected(line) == line.kw = "var" /\ line.key \in WebKeys \cup CoverKeys \cup StatusKeys

SelectedLines(html) == SelectSeq(html, Selected)

\* js_vars = {v[0]: v[1].strip('"') for v in js_vars}: a later line of the same
\* key replaces an earlier one.
Quote == "\""
js_vars_of(lines) ==
    [k \in {lines[i].key : i \in 1..Len(lines)} |->
        LET last == CHOOSE i \in 1..Len(lines) :
                        /\ lines[i].key = k
                        /\ \A j \in (i + 1)..Len(lines) : lines[j].key # k
        IN  Strip(lines[last].rest[1], {Quote})]

\* an entry of the dict literal with one trailing "%" removed, not .strip("%")
FieldResult_one_percent(js, f) ==
    IF f.src \notin DOMAIN js THEN Raises("KeyError")
    ELSE value_or_none(IF f.pct /\ js[f.src] # <<>> /\ js[f.src][Len(js[f.src])] = "%"
                       THEN SubSeq(js[f.src], 1, Len(js[f.src]) - 1)
                       ELSE js[f.src], f.dtype)

\* an entry of the dict literal read with js_vars.get: null for a missing key
FieldResult_get(js, f) ==
    IF f.src \notin DOMAIN js THEN Returns(None)
    ELSE value_or_none(IF f.pct THEN Strip(js[f.src], {"%"}) ELSE js[f.src], f.dtype)

\* One entry of the dict literal.
FieldResult(js, f) ==
    IF f.src \notin DOMAIN js THEN Raises("KeyError")
    ELSE value_or_none(IF f.pct THEN Strip(js[f.src], {"%"}) ELSE js[f.src], f.dtype)

FieldIndex(name) == CHOOSE i \in 1..Len(SourceFields) : SourceFields[i].field = name

\* The first entry of the dict literal that raises (0: none does).
FirstFault(js) ==
    Bind({i \in 1..Len(SourceFields) : FieldResult(js, SourceFields[i]).raises # None},
         LAMBDA faults : IF faults = {} THEN 0
                         ELSE CHOOSE i \in faults : \A j \in faults : i <= j)

\* The branch of a 200 response (mi300.py:149-184): raises, or the measures.
Measures200(status, reason, elapsed, html) ==
    IF html = None THEN Raises("AttributeError")
    ELSE Bind(SelectedLines(html[2]), LAMBDA lines :
        IF \E i \in 1..Len(lines) : lines[i].rest = <<>> THEN Raises("IndexError")
        ELSE IF elapsed = None THEN Raises("AttributeError")
        ELSE Bind(js_vars_of(lines), LAMBDA js :
            Bind(FirstFault(js), LAMBDA first :
                IF first # 0 THEN FieldResult(js, SourceFields[first])
                ELSE Returns(
                        [k \in RequestKeys |->
                            CASE k = "request_status_code" -> status
                              [] k = "request_reason" -> reason
                              [] OTHER -> total_seconds(elapsed)]
                        @@
                        [k \in {SourceFields[i].field : i \in 1..Len(SourceFields)} |->
                            FieldResult(js, SourceFields[FieldIndex(k)]).value]))))

\* The branch of a response that is not 200 (mi300.py:118-146).
MeasuresNot200(status, reason, elapsed) ==
    IF elapsed = None THEN Raises("AttributeError")
    ELSE Returns(
            [k \in RequestKeys |->
                CASE k = "request_status_code" -> status
                  [] k = "request_reason" -> reason
                  [] OTHER -> total_seconds(elapsed)]
            @@
            [k \in {measure_names[i] : i \in 1..Len(measure_names)} |-> None])

\* self.influx_data = [{"measurement": ..., "time": ..., "fields": ...}]
Record(measures, t) ==
    <<"list", [measurement |-> measures["inverter_serial_number"],
               time |-> t,
               fields |-> measures]>>

\* parse_html as a function of the attributes it reads: the exception it
\* raises (None: it returns) and the influx_data it leaves (old when it raises
\* before the assignment).
ParseHtml(status, reason, elapsed, html, t, old) ==
    IF status = None THEN [raises |-> None, influx_data |-> None]
    ELSE
    Bind(IF status # PInt(HTTP_OK) THEN MeasuresNot200(status, reason, elapsed)
         ELSE Measures200(status, reason, elapsed, html),
         LAMBDA m : IF m.raises # None THEN [raises |-> m.raises, influx_data |-> old]
                    ELSE [raises |-> None, influx_data |-> Record(m.value, t)])

-----------------------------------------------------------------------------
\* The environment: what the inverter can answer to requests.get.

Q(s) == <<Quote>> \o s \o <<Quote>>
Decl(key, val) == [kw |-> "var", key |-> key, rest |-> <<Q(val)>>]

\* A status page with every declaration filled.
FullPage ==
    << [kw |-> "other", key |-> "<html>", rest |-> <<>>],
       [kw |-> "var", key |-> "version", rest |-> <<Q(<<"1">>)>>],
       Decl("webdata_sn", <<"S", "N">>),
       Decl("webdata_msvn", <<"m">>),
       Decl("webdata_ssvn", <<"s">>),
       Decl("webdata_pv_type", <<"t">>),
       Decl("webdata_rate_p", <<"3", "0", "0">>),
       Decl("webdata_now_p", <<"4", "2">>),
       Decl("webdata_today_e", <<"0", ".", "5">>),
       Decl("webdata_total_e", <<"1", "2", ".", "5">>),
       Decl("webdata_alarm", <<>>),
       Decl("webdata_utime", <<"3">>),
       Decl("cover_mid", <<"d">>),
       Decl("cover_ver", <<"v">>),
       Decl("cover_wmode", <<"S", "T", "A">>),
       Decl("cover_ap_ssid", <<"a">>),
       Decl("cover_ap_ip", <<"1", ".", "1">>),
       Decl("cover_ap_mac", <<"A", "A">>),
       Decl("cover_sta_ssid", <<"w">>),
       Decl("cover_sta_rssi", <<"8", "7", "%">>),
       Decl("cover_sta_ip", <<"1", ".", "2">>),
       Decl("cover_sta_mac", <<"B", "B">>),
       Decl("status_a", <<"1">>),
       Decl("status_b", <<"0">>),
       Decl("status_c", <<>>) >>

\* page with the value of the declaration of key replaced by val
WithValue(page, key, val) ==
    [i \in 1..Len(page) |-> IF page[i].key = key THEN Decl(key, val) ELSE page[i]]
\* page without the declaration of key
Without(page, key) == SelectSeq(page, LAMBDA l : l.key # key)

\* The page the inverter occasionally returns: every field empty.
EmptyPage ==
    [i \in 1..Len(FullPage) |->
        IF Selected(FullPage[i]) THEN Decl(FullPage[i].key, <<>>) ELSE FullPage[i]]

Pages ==
    { FullPage,
      EmptyPage,
      WithValue(FullPage, "webdata_total_e", <<"x">>),
      WithValue(FullPage, "status_a", <<"x">>),
      Without(FullPage, "webdata_total_e"),
      FullPage \o << [kw |-> "var", key |-> "webdata_alarm", rest |-> <<>>] >>,
      <<>> }

Fast == Timedelta(0, 250000)
Slow == Timedelta(1, 500000)

\* A response of requests.get: status_code, reason, elapsed, text.  A reason
\* phrase is a string of one symbol.
Response(code, reason, td, text) ==
    [kind |-> "response", status_code |-> PInt(code), reason |-> PStr(<<reason>>),
     elapsed |-> td, text |-> <<"str", text>>]
Responses ==
    {Response(HTTP_OK, "OK", Fast, page) : page \in Pages}
    \cup {Response(404, "Not Found", Fast, <<>>),
          Response(500, "Internal Server Error", Slow, <<>>)}

\* requests.get returns a response or raises: Timeout, or another transport
\* error (requests.exceptions.ConnectionError).
Outcomes ==
    Responses \cup {[kind |-> "raise", exception |-> <<"exc", "Timeout">>],
                    [kind |-> "raise", exception |-> <<"exc", "ConnectionError">>]}

-----------------------------------------------------------------------------
\* MI300.get_html as a function of what requests.get did (o) and of the
\* attributes before the call (old): the attributes after it and the exception
\* it raises.  The local name request is bound only when requests.get returned,
\* so request.close() in the finally clause raises UnboundLocalError otherwise,
\* and that exception replaces the one in flight.
\* request bound on every path (request = None before the try)
RequestAlwaysBound(o) == o.kind \in {"response", "raise"}

RequestBound(o) == o.kind = "response"

GetHtml(o, old) ==
    LET attrs ==
            IF o.kind = "response"
            THEN [request_status_code |-> o.status_code,
                  request_reason |-> o.reason,
                  request_elapsed |-> o.elapsed,
                  request_html |-> IF o.status_code = PInt(HTTP_OK) THEN o.text ELSE None]
            ELSE IF o.exception = <<"exc", "Timeout">>
            THEN [request_status_code |-> None, request_reason |-> None,
                  request_elapsed |-> None, request_html |-> None]
            ELSE old
    IN  [attrs |-> attrs,
         raises |-> IF RequestBound(o) THEN None ELSE <<"exc", "UnboundLocalError">>]

\* MI300.is_reachable (mi300.py:28-37): one ping; the attribute is_reachable
\* becomes whether ping exited with 0.  main never calls it (run.py:64 names
\* the method without calling it), so no action of the collector applies it.
IsReachable(up) == PBool(up)

\* except LookupError in place of except Exception
IsLookupError(e) == e \in {<<"exc", "KeyError">>, <<"exc", "IndexError">>}

\* except Exception (run.py:70): every exception of the model but
\* KeyboardInterrupt is an instance of Exception.
IsException(e) == e # <<"exc", "KeyboardInterrupt">>

\* Influx.write (influx.py:42-53): the branch that logs, for each thing
\* client.write_points can do.  requests' ConnectionError is an OSError but not
\* the builtin ConnectionError.
SinkOutcomes ==
    {"True", "False", "builtins.ConnectionError", "requests.ConnectionError",
     "InfluxDBServerError", "InfluxDBClientError"}
InfluxWriteLog(o) ==
    CASE o = "True" -> "none"
      [] o = "False" -> "Connection Error."
      [] o = "builtins.ConnectionError" -> "Connection Error."
      [] o = "InfluxDBServerError" -> "Sending data to database failed due to timeout."
      [] OTHER -> "Encountered unknown error."

YieldTotal(data) == data[2].fields["yield_total"]

\* The raw responses get_html can leave in the request_ attributes: a response
\* it stored, or the nulls of its Timeout branch.
RawOf(o) == GetHtml(o, [request_status_code |-> Unset, request_reason |-> Unset,
                        request_elapsed |-> Unset, request_html |-> Unset]).attrs
RawResponses ==
    {RawOf(o) : o \in Responses \cup {[kind |-> "raise", exception |-> <<"exc", "Timeout">>]}}
    \cup {RawOf(Response(code, "Error", td, <<>>)) : code \in {301, 404, 500}, td \in {Fast, Slow}}

\* Pages for parse_html alone: the full page without one of the declarations
\* the dict literal reads, and the full page with every value of cover_sta_rssi
\* of at most MaxRssiLen characters over digits, "%" and another character.
MaxRssiLen == 4
RssiAlphabet == {"8", "7", "%", "x"}
RssiValues == UNION {[1..n -> RssiAlphabet] : n \in 0..MaxRssiLen}
RequiredKeys == {SourceFields[i].src : i \in 1..Len(SourceFields)}
MissingPages == {Without(FullPage, k) : k \in RequiredKeys}
RssiPages == {WithValue(FullPage, "cover_sta_rssi", v) : v \in RssiValues}
MissingInputs == {RawOf(Response(HTTP_OK, "OK", Fast, page)) : page \in MissingPages}
RssiInputs == {RawOf(Response(HTTP_OK, "OK", Fast, page)) : page \in RssiPages}

-----------------------------------------------------------------------------
\* The collector: main (run.py:55-77), MI300.read_data and MI300.query.

Init ==
    /\ pc = "gate"
    /\ pending = None
    /\ exc = None
    /\ logged = None
    /\ is_reachable = BoundMethod
    /\ online \in BOOLEAN
    /\ tries = 0
    /\ request_status_code = Unset
    /\ request_reason = Unset
    /\ request_elapsed = Unset
    /\ request_html = Unset
    /\ time = Unset
    /\ influx_data = None
    /\ clock = 0
    /\ outcome = None
    /\ attempts = 0
    /\ fetches = 0
    /\ goodAt = 0
    /\ goodRec = None
    /\ writes = 0
    /\ written = Unset
    /\ sink_log = "none"
    /\ sink = "none"
    /\ producedAt = 0
    /\ pings = 0
    /\ parse_in = None

attrs_vars == <<request_status_code, request_reason, request_elapsed, request_html, time>>
env_vars == <<online, clock, outcome>>
hist_vars == <<attempts, fetches, goodAt, goodRec, writes, written, sink_log, sink,
               producedAt, pings>>

\* if mi300.is_reachable: (run.py:64) reads the attribute and calls nothing;
\* read_data starts with tries = 0 (mi300.py:53).
main_gate ==
    /\ pc = "gate"
    /\ IF Truthy(is_reachable)
       THEN pc' = "while" /\ tries' = 0
       ELSE pc' = "sleep" /\ tries' = tries
    /\ exc' = None
    /\ UNCHANGED <<pending, logged, is_reachable, influx_data, parse_in>>
    /\ UNCHANGED <<attrs_vars, env_vars, hist_vars>>

\* while tries < 5: self.query() (mi300.py:54-55); tries is assigned nowhere else.
\* read_data_while with the counter incremented (tries += 1 in the loop)
read_data_while_counting ==
    /\ pc = "while"
    /\ IF tries < MaxTries
       THEN pc' = "get_html" /\ attempts' = Inc(attempts) /\ tries' = tries + 1
       ELSE pc' = "write" /\ attempts' = attempts /\ tries' = tries
    /\ UNCHANGED <<pending, exc, logged, is_reachable, influx_data, parse_in>>
    /\ UNCHANGED <<attrs_vars, env_vars, fetches, goodAt, goodRec, writes, written, sink_log>>
    /\ UNCHANGED <<sink, producedAt, pings>>

read_data_while ==
    /\ pc = "while"
    /\ IF tries < MaxTries
       THEN pc' = "get_html" /\ attempts' = Inc(attempts)
       ELSE pc' = "write" /\ attempts' = attempts
    /\ UNCHANGED <<pending, exc, logged, is_reachable, tries, influx_data, parse_in>>
    /\ UNCHANGED <<attrs_vars, env_vars, fetches, goodAt, goodRec, writes, written, sink_log>>
    /\ UNCHANGED <<sink, producedAt, pings>>

get_html ==
    /\ pc = "get_html"
    /\ \E o \in Outcomes :
        LET r == GetHtml(o, [request_status_code |-> request_status_code,
                             request_reason |-> request_reason,
                             request_elapsed |-> request_elapsed,
                             request_html |-> request_html])
        IN  /\ outcome' = IF o.kind = "response" THEN <<"response">> ELSE o.exception
            /\ time' = clock
            /\ clock' = Tick(clock)
            /\ request_status_code' = r.attrs.request_status_code
            /\ request_reason' = r.attrs.request_reason
            /\ request_elapsed' = r.attrs.request_elapsed
            /\ request_html' = r.attrs.request_html
            /\ exc' = r.raises
            /\ pc' = IF r.raises = None THEN "parse_html" ELSE "raised"
    /\ fetches' = Inc(fetches)
    /\ UNCHANGED <<pending, logged, is_reachable, online, tries, influx_data, parse_in>>
    /\ UNCHANGED <<attempts, goodAt, goodRec, writes, written, sink_log>>
    /\ UNCHANGED <<sink, producedAt, pings>>

\* ParseHtml tabulated over the raw responses and time stamps, so that it is
\* evaluated once for each; Unset stands for the influx_data of before the
\* call, which ParseHtml hands back when it raises before the assignment.
ParseHtmlOf ==
    [raw \in RawResponses, t \in 0..MaxClock |->
        ParseHtml(raw.request_status_code, raw.request_reason, raw.request_elapsed,
                  raw.request_html, t, Unset)]

\* parse_html consuming the stored body: request_html is cleared after the parse
parse_html_clearing ==
    /\ pc = "parse_html"
    /\ LET raw == [request_status_code |-> request_status_code,
                   request_reason |-> request_reason,
                   request_elapsed |-> request_elapsed,
                   request_html |-> request_html]
       IN  \E m \in {IF request_status_code = Unset
                      THEN [raises |-> <<"exc", "AttributeError">>, influx_data |-> Unset]
                      ELSE IF raw \in RawResponses THEN ParseHtmlOf[raw, time]
                      ELSE ParseHtml(request_status_code, request_reason, request_elapsed,
                                     request_html, time, Unset)} :
           /\ influx_data' = IF m.influx_data = Unset THEN influx_data ELSE m.influx_data
           /\ exc' = m.raises
           /\ pc' = IF m.raises = None THEN "check" ELSE "raised"
           /\ producedAt' = IF m.raises = None THEN attempts ELSE producedAt
    /\ request_html' = None
    /\ UNCHANGED <<pending, logged, is_reachable, tries, parse_in>>
    /\ UNCHANGED <<request_status_code, request_reason, request_elapsed, time>>
    /\ UNCHANGED <<env_vars, attempts, fetches, goodAt, goodRec, writes, written, sink_log>>
    /\ UNCHANGED <<sink, pings>>

parse_html ==
    /\ pc = "parse_html"
    /\ LET raw == [request_status_code |-> request_status_code,
                   request_reason |-> request_reason,
                   request_elapsed |-> request_elapsed,
                   request_html |-> request_html]
       IN  \E m \in {IF request_status_code = Unset
                      THEN [raises |-> <<"exc", "AttributeError">>, influx_data |-> Unset]
                      ELSE IF raw \in RawResponses THEN ParseHtmlOf[raw, time]
                      ELSE ParseHtml(request_status_code, request_reason, request_elapsed,
                                     request_html, time, Unset)} :
           \E r \in {[raises |-> m.raises,
                      influx_data |-> IF m.influx_data = Unset THEN influx_data
                                      ELSE m.influx_data]} :
           LET good == r.raises = None /\ r.influx_data # None
                       /\ YieldTotal(r.influx_data) # None
           IN
           /\ influx_data' = r.influx_data
           /\ exc' = r.raises
           /\ pc' = IF r.raises = None THEN "check" ELSE "raised"
           /\ goodAt' = IF goodAt = 0 /\ good THEN attempts ELSE goodAt
           /\ goodRec' = IF goodAt = 0 /\ good THEN r.influx_data ELSE goodRec
           /\ producedAt' = IF r.raises = None THEN attempts ELSE producedAt
    /\ UNCHANGED <<pending, logged, is_reachable, tries, parse_in>>
    /\ UNCHANGED <<attrs_vars, env_vars, attempts, fetches, writes, written, sink_log>>
    /\ UNCHANGED <<sink, pings>>

\* read_data_check with the break forgotten
read_data_check_no_break ==
    /\ pc = "check"
    /\ IF influx_data = None
       THEN pc' = "raised" /\ exc' = <<"exc", "TypeError">>
       ELSE pc' = "while" /\ exc' = None
    /\ UNCHANGED <<pending, logged, is_reachable, tries, influx_data, parse_in>>
    /\ UNCHANGED <<attrs_vars, env_vars, hist_vars>>

\* if self.influx_data[0]["fields"]["yield_total"] is not None: break (mi300.py:56-57)
read_data_check ==
    /\ pc = "check"
    /\ IF influx_data = None
       THEN pc' = "raised" /\ exc' = <<"exc", "TypeError">>
       ELSE /\ pc' = IF YieldTotal(influx_data) # None THEN "write" ELSE "while"
            /\ exc' = None
    /\ UNCHANGED <<pending, logged, is_reachable, tries, influx_data, parse_in>>
    /\ UNCHANGED <<attrs_vars, env_vars, hist_vars>>

\* influx.write(mi300.influx_data) (run.py:66): every exception of
\* write_points is caught in Influx.write.
\* influx_write with a retry: a write that failed is made again
influx_write_retry ==
    /\ pc = "write"
    /\ \E o \in SinkOutcomes :
        /\ sink' = o /\ sink_log' = InfluxWriteLog(o)
        /\ pc' = IF InfluxWriteLog(o) = "none" THEN "sleep" ELSE "write"
    /\ written' = influx_data
    /\ writes' = Inc(writes)
    /\ UNCHANGED <<pending, exc, logged, is_reachable, tries, influx_data, parse_in>>
    /\ UNCHANGED <<attrs_vars, env_vars, attempts, fetches, goodAt, goodRec>>
    /\ UNCHANGED <<producedAt, pings>>

influx_write ==
    /\ pc = "write"
    /\ \E o \in SinkOutcomes : sink' = o /\ sink_log' = InfluxWriteLog(o)
    /\ written' = influx_data
    /\ writes' = Inc(writes)
    /\ pc' = "sleep"
    /\ UNCHANGED <<pending, exc, logged, is_reachable, tries, influx_data, parse_in>>
    /\ UNCHANGED <<attrs_vars, env_vars, attempts, fetches, goodAt, goodRec>>
    /\ UNCHANGED <<producedAt, pings>>

\* except Exception as e: logger.error(e) (run.py:70-71); an exception that is
\* no Exception goes on through the finally clause.
\* main_except with the write outside the try: what influx_data holds is
\* written after a failure was logged
main_except_writes ==
    /\ pc = "raised"
    /\ IF IsException(exc)
       THEN logged' = exc /\ pending' = pending /\ pc' = "write"
       ELSE logged' = logged /\ pending' = exc /\ pc' = "sleep"
    /\ UNCHANGED <<exc, is_reachable, tries, influx_data, parse_in>>
    /\ UNCHANGED <<attrs_vars, env_vars, hist_vars>>

main_except ==
    /\ pc = "raised"
    /\ IF IsException(exc)
       THEN logged' = exc /\ pending' = pending
       ELSE logged' = logged /\ pending' = exc
    /\ pc' = "sleep"
    /\ UNCHANGED <<exc, is_reachable, tries, influx_data, parse_in>>
    /\ UNCHANGED <<attrs_vars, env_vars, hist_vars>>

\* finally: time.sleep(SAMPLE_TIME) (run.py:73-74), then the next iteration of
\* while True, or the exception in flight leaves the loop: KeyboardInterrupt is
\* caught at run.py:76, anything else ends main.
main_sleep ==
    /\ pc = "sleep"
    /\ IF pending = None
       THEN /\ pc' = "gate"
            /\ online' \in BOOLEAN
            /\ attempts' = 0 /\ fetches' = 0 /\ writes' = 0
            /\ goodAt' = 0 /\ goodRec' = None
            /\ outcome' = None /\ logged' = None /\ sink_log' = "none" /\ exc' = None
            /\ sink' = "none" /\ producedAt' = 0 /\ pings' = 0
       ELSE /\ pc' = IF pending = <<"exc", "KeyboardInterrupt">> THEN "stopped" ELSE "crashed"
            /\ UNCHANGED <<online, attempts, fetches, writes, goodAt, goodRec>>
            /\ UNCHANGED <<outcome, logged, sink_log, exc, sink, producedAt, pings>>
    /\ UNCHANGED <<pending, is_reachable, tries, influx_data, parse_in>>
    /\ UNCHANGED <<attrs_vars, clock, written>>

\* CTRL-C: inside the inner try it runs the finally clause first; during the
\* sleep it leaves the loop at once.
KeyboardInterrupt ==
    /\ pc \in {"gate", "while", "get_html", "parse_html", "check", "write", "raised", "sleep"}
    /\ pending' = <<"exc", "KeyboardInterrupt">>
    /\ pc' = IF pc = "sleep" THEN "stopped" ELSE "sleep"
    /\ UNCHANGED <<exc, logged, is_reachable, tries, influx_data, parse_in>>
    /\ UNCHANGED <<attrs_vars, env_vars, hist_vars>>

Step ==
    \/ main_gate
    \/ read_data_while
    \/ get_html
    \/ parse_html
    \/ read_data_check
    \/ influx_write
    \/ main_except
    \/ main_sleep

Next == Step \/ KeyboardInterrupt

Spec == Init /\ [][Next]_vars

\* The interpreter keeps running the program; nothing says CTRL-C ever comes.
FairSpec == Spec /\ WF_vars(Step)

-----------------------------------------------------------------------------
\* parse_html alone, applied to every raw response of a bounded set: the
\* attributes get_html can leave (a response it stored, or the nulls of its
\* Timeout branch), at each time stamp, over an earlier influx_data.

OldData == {None, Record(MeasuresNot200(PInt(404), PStr(<<"Not Found">>), Fast).value, 0)}

\* A call of parse_html under test: the raw response, the time stamp of its
\* fetch, the influx_data of before the call, and the result of the first call
\* once a second one is made (Unset before).  The values of cover_sta_rssi are
\* tried at one time stamp and over no earlier record.
ParseCall(raw, t, d) ==
    raw @@ [time |-> t, old |-> d, first |-> [raises |-> Unset, influx_data |-> Unset]]
ParseCalls ==
    {ParseCall(raw, t, d) : raw \in RawResponses \cup MissingInputs, t \in 0..MaxClock, d \in OldData}
    \cup {ParseCall(raw, 0, None) : raw \in RssiInputs}

InitParse ==
    /\ pc = "parse_html"
    /\ pending = None
    /\ exc = None
    /\ logged = None
    /\ is_reachable = BoundMethod
    /\ online = TRUE
    /\ tries = 0
    /\ parse_in \in ParseCalls
    /\ request_status_code = parse_in.request_status_code
    /\ request_reason = parse_in.request_reason
    /\ request_elapsed = parse_in.request_elapsed
    /\ request_html = parse_in.request_html
    /\ time = parse_in.time
    /\ influx_data = parse_in.old
    /\ clock = MaxClock
    /\ outcome = None
    /\ attempts = 1
    /\ fetches = 1
    /\ goodAt = 0
    /\ goodRec = None
    /\ writes = 0
    /\ written = Unset
    /\ sink_log = "none"
    /\ sink = "none"
    /\ producedAt = 0
    /\ pings = 0

\* parse_html is called once more on the same stored raw response
parse_again ==
    /\ pc \in {"check", "raised"}
    /\ parse_in.first.raises = Unset
    /\ parse_in' = [parse_in EXCEPT !.first = [raises |-> exc, influx_data |-> influx_data]]
    /\ pc' = "parse_html"
    /\ exc' = None
    /\ UNCHANGED <<pending, logged, is_reachable, tries, influx_data>>
    /\ UNCHANGED <<attrs_vars, env_vars, hist_vars>>

ParseSpec == InitParse /\ [][parse_html \/ parse_again]_vars

-----------------------------------------------------------------------------
\* Properties.

KI == <<"exc", "KeyboardInterrupt">>
TimeoutExc == <<"exc", "Timeout">>
ConnectionExc == <<"exc", "ConnectionError">>

\* C1: in one call of read_data the number of query attempts never exceeds 5,
\* and no attempt follows an attempt whose record has a non-null yield_total.
C1_AtMostFiveAttempts ==
    /\ attempts <= MaxTries
    /\ (goodAt # 0 => attempts = goodAt)

\* C2: in a cycle in which the inverter does not answer the echo, get_html is
\* never invoked and Influx.write is never invoked.
C2_OfflineSkipsFetchAndWrite ==
    ~online => fetches = 0 /\ writes = 0

\* C3: when the 5th attempt of a cycle has produced a record with null
\* yield_total, like the four before it, the retry loop ends there: the next
\* step of read_data hands over to Influx.write instead of querying again.
C3_FifthNullAttemptEndsLoop ==
    [][(pc = "check" /\ attempts = MaxTries /\ goodAt = 0 /\ pc' # "sleep")
          => pc' = "write"]_vars

\* C4: when attempt k (1 <= k <= 5) is the first of its cycle whose record has
\* a non-null yield_total, no further attempt is made (exactly k attempts), the
\* record that reaches Influx.write is that k-th record, it is written once,
\* and unless CTRL-C comes first it is written.
C4_Safe ==
    goodAt \in 1..MaxTries =>
        /\ attempts = goodAt
        /\ influx_data = goodRec
        /\ pc \in {"check", "write", "sleep", "stopped"}
        /\ (pc \in {"check", "write"} => writes = 0)
        /\ (writes # 0 => writes = 1 /\ written = goodRec)
        /\ (pc = "sleep" /\ pending = None => writes = 1)
C4_FirstGoodAttemptIsDelivered ==
    /\ []C4_Safe
    /\ (goodAt \in 1..MaxTries) ~> ((writes = 1 /\ written = goodRec) \/ pending = KI)
C4_Witness ==
    goodAt = 2 /\ attempts = 2 /\ writes = 1 /\ written = goodRec /\ pc = "sleep"

\* C5: every poll cycle that starts reaches the sleep.
C5_EveryCycleReachesSleep ==
    (pc = "gate") ~> (pc = "sleep")

\* C6: no failure inside a cycle ends the loop: an exception raised in the
\* cycle is caught and logged and the sleep follows, after the sleep the next
\* cycle starts, and the loop is left only on KeyboardInterrupt.
C6_OnlyInterruptStopsLoop ==
    [][ /\ (pc = "raised" /\ pending' # KI => pc' = "sleep" /\ logged' = exc /\ pending' = None)
        /\ (pc = "sleep" /\ pending' = None => pc' = "gate")
        /\ (pc' \in {"stopped", "crashed"} => pc' = "stopped" /\ pending' = KI) ]_vars
\* a cycle starts after a cycle that ended in a caught failure (nothing was
\* ever written, yet a GET was made)
C6_Witness ==
    pc = "gate" /\ clock > 0 /\ written = Unset /\ pending = None

\* C7: when the GET times out, get_html raises nothing and leaves the four
\* request_ attributes null, so that parse_html runs next.
C7_TimeoutCompletesNormally ==
    outcome = TimeoutExc =>
        /\ exc # <<"exc", "UnboundLocalError">>
        /\ request_status_code = None /\ request_reason = None
        /\ request_elapsed = None /\ request_html = None

\* C8: a transport failure of the GET that is no timeout never raises out of
\* get_html / query, and the retry loop goes on.
C8_TransportFailureDoesNotRaise ==
    outcome = ConnectionExc => pc \notin {"raised", "sleep"} \/ pending = KI

ParseDone == pc \in {"check", "raised"}
MeasurementKeys(fields) == DOMAIN fields \ RequestKeys

\* C9: for a raw response whose status code is null, parse_html produces a
\* record, not a null container: 23 measurement fields, all null, the three
\* request_ fields null, and a null measurement key.
C9_NullStatusGivesNullRecord ==
    (ParseDone /\ parse_in.request_status_code = None) =>
        /\ exc = None
        /\ influx_data # None
        /\ Cardinality(MeasurementKeys(influx_data[2].fields)) = 23
        /\ \A k \in DOMAIN influx_data[2].fields : influx_data[2].fields[k] = None
        /\ influx_data[2].measurement = None

\* the fields of the record parse_html builds from a 200 response
Fields200 ==
    ParseHtml(PInt(HTTP_OK), PStr(<<"OK">>), Fast, <<"str", FullPage>>, 0, None).influx_data[2].fields

\* 10^n
RECURSIVE Pow10(_)
Pow10(n) == IF n = 0 THEN 1 ELSE 10 * Pow10(n - 1)

\* C10: for a raw response with a status code S that is neither null nor 200,
\* parse_html produces a record whose 23 measurement fields are all null,
\* whose request_status_code is S, whose request_reason is the response's and
\* whose request_elapsed is the response's elapsed time in seconds, whose
\* measurement key is null, and whose key set is that of a 200 record.
C10_Not200GivesDegradedRecord ==
    (ParseDone /\ parse_in.request_status_code \notin {None, PInt(HTTP_OK)}) =>
        /\ exc = None
        /\ influx_data # None
        /\ LET fields == influx_data[2].fields
               el == fields["request_elapsed"]
           IN  /\ Cardinality(MeasurementKeys(fields)) = 23
               /\ \A k \in MeasurementKeys(fields) : fields[k] = None
               /\ fields["request_status_code"] = parse_in.request_status_code
               /\ fields["request_reason"] = parse_in.request_reason
               /\ el[1] = "float"
               /\ el[2] * 1000000 =
                    (parse_in.request_elapsed[2] * 1000000 + parse_in.request_elapsed[3]) * Pow10(el[3])
               /\ DOMAIN fields = DOMAIN Fields200
        /\ influx_data[2].measurement = None
        /\ influx_data[2].time = time
C10_Witness ==
    /\ ParseDone
    /\ parse_in.request_status_code = PInt(500)
    /\ parse_in.request_elapsed = Slow
    /\ influx_data # None
    /\ influx_data[2].fields["request_elapsed"] = <<"float", 15, 1>>

\* C11: in every poll cycle Influx.write is invoked at most once, only when the
\* fetch+parse attempts of the cycle are over (the last attempt has been parsed
\* and no attempt follows the write), and a write that failed is not made
\* again: the cycle goes to the sleep, and what a later cycle writes is a record
\* it has fetched and parsed itself.
C11_WriteInvoked == writes = 0 /\ writes' = 1
C11_OneWritePerCycleNoRetry ==
    /\ [](writes <= 1)
    /\ [][ /\ (C11_WriteInvoked =>
                  /\ attempts >= 1 /\ producedAt = attempts /\ fetches = attempts
                  /\ pc' = "sleep")
          /\ (writes = 1 =>
                  \/ attempts' = attempts /\ fetches' = fetches /\ writes' = 1
                  \/ pc = "sleep" /\ pc' = "gate" /\ writes' = 0 /\ producedAt' = 0) ]_vars
\* a write has failed and the cycle is at its sleep
C11_Witness ==
    pc = "sleep" /\ writes = 1 /\ sink = "False" /\ sink_log = "Connection Error."
        /\ pending = None

\* what the sink did, by kind of failure
ConnectionFailures == {"False", "builtins.ConnectionError", "requests.ConnectionError"}
ServerFailures == {"InfluxDBServerError"}

\* Influx.write returned to main without raising: nothing is in flight, nothing
\* was logged by main's handler, and the cycle is at its sleep (or was stopped
\* there by CTRL-C)
C12_WriteDoesNotRaise ==
    writes = 1 => /\ pc \in {"sleep", "stopped"}
                  /\ exc = None /\ logged = None
                  /\ pending \in {None, KI}
                  /\ written = influx_data
\* each kind of failure has its own log branch
C12_Classified ==
    writes = 1 =>
        sink_log = CASE sink = "True" -> "none"
                     [] sink \in ConnectionFailures -> "Connection Error."
                     [] sink \in ServerFailures -> "Sending data to database failed due to timeout."
                     [] OTHER -> "Encountered unknown error."
\* C12: Influx.write never raises to its caller: a connection failure (a falsy
\* result of write_points included), a server error/timeout and any other
\* exception are caught and logged each in its own branch, the record is
\* dropped and the cycle proceeds to the sleep.
C12_WriteFailuresAreClassified ==
    C12_WriteDoesNotRaise /\ C12_Classified

\* C13: every poll cycle performs exactly one reachability probe (one ping run
\* by MI300.is_reachable), before any fetch of the cycle, and the gate of the
\* cycle uses the result of that probe, not an earlier value or a constant.
C13_OneProbePerCycle ==
    /\ pings <= 1
    /\ (pc # "gate" /\ pending = None => pings = 1)
    /\ (fetches > 0 => pings = 1 /\ is_reachable = IsReachable(online))

\* the keys a page declares in lines parse_html selects
DeclaredKeys(page) == {page[i].key : i \in {j \in 1..Len(page) : Selected(page[j])}}
\* the call under test is on a 200 response whose page lacks a required declaration
C14_LacksDeclaration ==
    /\ parse_in.request_status_code = PInt(HTTP_OK)
    /\ parse_in.request_html # None
    /\ RequiredKeys \ DeclaredKeys(parse_in.request_html[2]) # {}
C14_FailsWithoutRecord ==
    (ParseDone /\ C14_LacksDeclaration) =>
        /\ pc = "raised"
        /\ exc = <<"exc", "KeyError">>
        /\ influx_data = parse_in.old

C15_RssiCase ==
    /\ parse_in.request_status_code = PInt(HTTP_OK)
    /\ parse_in.request_html # None
    /\ parse_in.request_html[2] \in RssiPages
RssiIn ==
    CHOOSE v \in RssiValues : parse_in.request_html[2] = WithValue(FullPage, "cover_sta_rssi", v)
AllDigits(v) == \A i \in 1..Len(v) : v[i] \in DigitSet
IntOrNull(v) == IF v # <<>> /\ AllDigits(v) THEN PInt(DecimalValue(v)) ELSE None
\* v with one trailing percent sign removed
OneTrailingPercentRemoved(v) ==
    IF v # <<>> /\ v[Len(v)] = "%" THEN SubSeq(v, 1, Len(v) - 1) ELSE v
\* the part of v between its leading and its trailing percent signs
BetweenPercents(v) ==
    LET inner == {i \in 1..Len(v) : v[i] # "%"}
    IN  IF inner = {} THEN <<>>
        ELSE SubSeq(v, CHOOSE i \in inner : \A j \in inner : i <= j,
                       CHOOSE i \in inner : \A j \in inner : i >= j)

\* C15 as stated: STA_signal_quality is the int coercion of cover_sta_rssi with
\* one trailing percent sign removed: "87%" gives 87, while "%87", "87%%" and
\* "" give null.
C15_Original ==
    (ParseDone /\ C15_RssiCase) =>
        /\ exc = None
        /\ influx_data[2].fields["STA_signal_quality"] = IntOrNull(OneTrailingPercentRemoved(RssiIn))

\* C15: STA_signal_quality is the int coercion of cover_sta_rssi with every
\* leading and every trailing percent sign removed: the decimal number when
\* what remains is non-empty and all decimal digits, otherwise null ("87%",
\* "%87" and "87%%" give 87; "8%7", "87x", "%" and "" give null).
C15_SignalQualityStripsPercents ==
    (ParseDone /\ C15_RssiCase) =>
        /\ exc = None
        /\ influx_data[2].fields["STA_signal_quality"] = IntOrNull(BetweenPercents(RssiIn))
\* "87%%" has been parsed to 87
C15_Witness ==
    /\ ParseDone /\ C15_RssiCase
    /\ RssiIn = <<"8", "7", "%", "%">>
    /\ exc = None
    /\ influx_data[2].fields["STA_signal_quality"] = PInt(87)

\* parse_html has been called a second time on the stored raw response
SecondCallDone == ParseDone /\ parse_in.first.raises # Unset

\* C16: calling parse_html twice in a row on the same stored raw response
\* (same status, reason, elapsed, body and fetch time stamp) yields identical
\* results: the second call leaves the influx_data the first call left and ends
\* as the first did, and a call of parse_html changes no attribute of the
\* object other than influx_data.
C16_ParseTwiceSameRecord ==
    /\ [](SecondCallDone =>
            /\ influx_data = parse_in.first.influx_data
            /\ exc = parse_in.first.raises)
    /\ [][pc = "parse_html" =>
            /\ UNCHANGED <<request_status_code, request_reason, request_elapsed, request_html>>
            /\ UNCHANGED <<time, is_reachable, tries>>]_vars
\* the full page has been parsed twice over an earlier record of another response
C16_Witness ==
    /\ SecondCallDone
    /\ parse_in.first.raises = None
    /\ parse_in.old # None
    /\ influx_data # None /\ influx_data # parse_in.old
    /\ influx_data = parse_in.first.influx_data
    /\ YieldTotal(influx_data) = <<"float", 125, 1>>

\* a record with the layout parse_html gives it and the full key set
WellFormed(data) ==
    /\ data # None
    /\ data[1] = "list"
    /\ DOMAIN data[2] = {"measurement", "time", "fields"}
    /\ DOMAIN data[2].fields = DOMAIN Fields200

\* C17: whenever read_data evaluates its termination check
\* influx_data[0]["fields"]["yield_total"], influx_data is a non-null
\* well-formed record produced by the query just executed (the attempt in
\* progress, from the response and time stamp of its fetch); the check never
\* faults on a null container.
C17_CheckSeesFreshRecord ==
    /\ (pc = "check" =>
            /\ WellFormed(influx_data)
            /\ producedAt = attempts /\ attempts >= 1
            /\ influx_data[2].time = time
            /\ influx_data[2].fields["request_status_code"] = request_status_code)
    /\ exc # <<"exc", "TypeError">>
\* the check is evaluated on the degraded record of a second attempt
C17_Witness ==
    /\ pc = "check" /\ attempts = 2 /\ producedAt = 2
    /\ request_status_code = PInt(500)
    /\ WellFormed(influx_data)
    /\ YieldTotal(influx_data) = None

\* C18: every record handed to Influx.write was produced by the last
\* fetch+parse attempt of the same cycle: when the write is about to be made
\* and once it is made, influx_data is the record the last attempt of this
\* cycle built from its own fetch; a cycle in which something was raised
\* writes nothing; and there is one write of a record at most.
C18_WrittenRecordIsFresh ==
    /\ (pc = "write" \/ writes >= 1 =>
            /\ attempts >= 1 /\ producedAt = attempts /\ fetches = attempts
            /\ influx_data # None
            /\ influx_data[2].time = time
            /\ logged = None)
    /\ (writes >= 1 => writes = 1 /\ written = influx_data)
    /\ (logged # None => writes = 0)
\* a record is written in a cycle that comes after two fetches of earlier
\* cycles, and carries the time stamp of its own fetch
C18_Witness ==
    /\ pc = "sleep" /\ writes = 1 /\ attempts = 1
    /\ time = MaxClock
    /\ written = influx_data /\ written[2].time = MaxClock

\* C19: every record main hands to Influx.write has a non-null yield_total
\* and request_status_code 200: read_data returns normally only through the
\* early exit, so a degraded (all-null) record is never delivered.
C19_Delivered(data) ==
    /\ data # None
    /\ YieldTotal(data) # None
    /\ data[2].fields["request_status_code"] = PInt(HTTP_OK)
C19_OnlyGoodRecordsDelivered ==
    /\ (pc = "write" => C19_Delivered(influx_data) /\ tries < MaxTries)
    /\ (written # Unset => C19_Delivered(written))
\* a good record is delivered after two degraded attempts
C19_Witness ==
    /\ pc = "sleep" /\ writes = 1 /\ attempts = 3
    /\ C19_Delivered(written)
    /\ YieldTotal(written) = <<"float", 125, 1>>

====
